---------------------------- MODULE Spec2Model ----------------------------
(***************************************************************************)
(* A model of numeroscadastrais/cpf.py: the CPF value object and the       *)
(* module-level validation functions.                                      *)
(*                                                                         *)
(* A Python str is a sequence of characters.  A printable ASCII character *)
(* (and \t, \n, \r, \f) is the one-character string of itself; any other  *)
(* character is the string "U+XXXX" of its code point, so that U+00B2 is   *)
(* SUPERSCRIPT TWO and U+0661 is ARABIC-INDIC DIGIT ONE.  An exception is  *)
(* the name of its class ("None" when nothing is raised).  A name that is  *)
(* not yet bound to a CPF object is the empty sequence; a bound one is a   *)
(* one-element sequence holding the object: its class and its two private  *)
(* fields.                                                                 *)
(***************************************************************************)
EXTENDS Integers, Sequences, FiniteSets, TLC

VARIABLES
    cpf_string_a,                \* first raw string handed to the library
    cpf_string_b,                \* second raw string (two-argument calls)
    allow_missing_check_digits,  \* the keyword argument of the validators
    cpf_a,                       \* <<>> or <<CPF object built from cpf_string_a>>
    cpf_b,                       \* <<>> or <<CPF object built from cpf_string_b>>
    op,                          \* name of the last call made
    ret,                         \* its return value (when exc = "None")
    exc                          \* class of the exception it raised, or "None"

vars == <<cpf_string_a, cpf_string_b, allow_missing_check_digits,
          cpf_a, cpf_b, op, ret, exc>>

-----------------------------------------------------------------------------
(* Bounds of the enumerated inputs *)

MaxStep == 2

MaxTailDelta == 1

MaxPairStep == 1

-----------------------------------------------------------------------------
(* Python built-ins used by the code *)

\* the characters str(n) and '%d' % n are written with
Digits == <<"0", "1", "2", "3", "4", "5", "6", "7", "8", "9">>

\* the decimal digits of every script (Unicode 14, general category Nd): row
\* r holds the digits ZERO..NINE of one script, the ASCII digits first
DecimalDigits ==
    <<
      <<"0", "1", "2", "3", "4", "5", "6", "7", "8", "9">>,
      <<"U+0660", "U+0661", "U+0662", "U+0663", "U+0664", "U+0665", "U+0666", "U+0667", "U+0668", "U+0669">>,
      <<"U+06F0", "U+06F1", "U+06F2", "U+06F3", "U+06F4", "U+06F5", "U+06F6", "U+06F7", "U+06F8", "U+06F9">>,
      <<"U+07C0", "U+07C1", "U+07C2", "U+07C3", "U+07C4", "U+07C5", "U+07C6", "U+07C7", "U+07C8", "U+07C9">>,
      <<"U+0966", "U+0967", "U+0968", "U+0969", "U+096A", "U+096B", "U+096C", "U+096D", "U+096E", "U+096F">>,
      <<"U+09E6", "U+09E7", "U+09E8", "U+09E9", "U+09EA", "U+09EB", "U+09EC", "U+09ED", "U+09EE", "U+09EF">>,
      <<"U+0A66", "U+0A67", "U+0A68", "U+0A69", "U+0A6A", "U+0A6B", "U+0A6C", "U+0A6D", "U+0A6E", "U+0A6F">>,
      <<"U+0AE6", "U+0AE7", "U+0AE8", "U+0AE9", "U+0AEA", "U+0AEB", "U+0AEC", "U+0AED", "U+0AEE", "U+0AEF">>,
      <<"U+0B66", "U+0B67", "U+0B68", "U+0B69", "U+0B6A", "U+0B6B", "U+0B6C", "U+0B6D", "U+0B6E", "U+0B6F">>,
      <<"U+0BE6", "U+0BE7", "U+0BE8", "U+0BE9", "U+0BEA", "U+0BEB", "U+0BEC", "U+0BED", "U+0BEE", "U+0BEF">>,
      <<"U+0C66", "U+0C67", "U+0C68", "U+0C69", "U+0C6A", "U+0C6B", "U+0C6C", "U+0C6D", "U+0C6E", "U+0C6F">>,
      <<"U+0CE6", "U+0CE7", "U+0CE8", "U+0CE9", "U+0CEA", "U+0CEB", "U+0CEC", "U+0CED", "U+0CEE", "U+0CEF">>,
      <<"U+0D66", "U+0D67", "U+0D68", "U+0D69", "U+0D6A", "U+0D6B", "U+0D6C", "U+0D6D", "U+0D6E", "U+0D6F">>,
      <<"U+0DE6", "U+0DE7", "U+0DE8", "U+0DE9", "U+0DEA", "U+0DEB", "U+0DEC", "U+0DED", "U+0DEE", "U+0DEF">>,
      <<"U+0E50", "U+0E51", "U+0E52", "U+0E53", "U+0E54", "U+0E55", "U+0E56", "U+0E57", "U+0E58", "U+0E59">>,
      <<"U+0ED0", "U+0ED1", "U+0ED2", "U+0ED3", "U+0ED4", "U+0ED5", "U+0ED6", "U+0ED7", "U+0ED8", "U+0ED9">>,
      <<"U+0F20", "U+0F21", "U+0F22", "U+0F23", "U+0F24", "U+0F25", "U+0F26", "U+0F27", "U+0F28", "U+0F29">>,
      <<"U+1040", "U+1041", "U+1042", "U+1043", "U+1044", "U+1045", "U+1046", "U+1047", "U+1048", "U+1049">>,
      <<"U+1090", "U+1091", "U+1092", "U+1093", "U+1094", "U+1095", "U+1096", "U+1097", "U+1098", "U+1099">>,
      <<"U+17E0", "U+17E1", "U+17E2", "U+17E3", "U+17E4", "U+17E5", "U+17E6", "U+17E7", "U+17E8", "U+17E9">>,
      <<"U+1810", "U+1811", "U+1812", "U+1813", "U+1814", "U+1815", "U+1816", "U+1817", "U+1818", "U+1819">>,
      <<"U+1946", "U+1947", "U+1948", "U+1949", "U+194A", "U+194B", "U+194C", "U+194D", "U+194E", "U+194F">>,
      <<"U+19D0", "U+19D1", "U+19D2", "U+19D3", "U+19D4", "U+19D5", "U+19D6", "U+19D7", "U+19D8", "U+19D9">>,
      <<"U+1A80", "U+1A81", "U+1A82", "U+1A83", "U+1A84", "U+1A85", "U+1A86", "U+1A87", "U+1A88", "U+1A89">>,
      <<"U+1A90", "U+1A91", "U+1A92", "U+1A93", "U+1A94", "U+1A95", "U+1A96", "U+1A97", "U+1A98", "U+1A99">>,
      <<"U+1B50", "U+1B51", "U+1B52", "U+1B53", "U+1B54", "U+1B55", "U+1B56", "U+1B57", "U+1B58", "U+1B59">>,
      <<"U+1BB0", "U+1BB1", "U+1BB2", "U+1BB3", "U+1BB4", "U+1BB5", "U+1BB6", "U+1BB7", "U+1BB8", "U+1BB9">>,
      <<"U+1C40", "U+1C41", "U+1C42", "U+1C43", "U+1C44", "U+1C45", "U+1C46", "U+1C47", "U+1C48", "U+1C49">>,
      <<"U+1C50", "U+1C51", "U+1C52", "U+1C53", "U+1C54", "U+1C55", "U+1C56", "U+1C57", "U+1C58", "U+1C59">>,
      <<"U+A620", "U+A621", "U+A622", "U+A623", "U+A624", "U+A625", "U+A626", "U+A627", "U+A628", "U+A629">>,
      <<"U+A8D0", "U+A8D1", "U+A8D2", "U+A8D3", "U+A8D4", "U+A8D5", "U+A8D6", "U+A8D7", "U+A8D8", "U+A8D9">>,
      <<"U+A900", "U+A901", "U+A902", "U+A903", "U+A904", "U+A905", "U+A906", "U+A907", "U+A908", "U+A909">>,
      <<"U+A9D0", "U+A9D1", "U+A9D2", "U+A9D3", "U+A9D4", "U+A9D5", "U+A9D6", "U+A9D7", "U+A9D8", "U+A9D9">>,
      <<"U+A9F0", "U+A9F1", "U+A9F2", "U+A9F3", "U+A9F4", "U+A9F5", "U+A9F6", "U+A9F7", "U+A9F8", "U+A9F9">>,
      <<"U+AA50", "U+AA51", "U+AA52", "U+AA53", "U+AA54", "U+AA55", "U+AA56", "U+AA57", "U+AA58", "U+AA59">>,
      <<"U+ABF0", "U+ABF1", "U+ABF2", "U+ABF3", "U+ABF4", "U+ABF5", "U+ABF6", "U+ABF7", "U+ABF8", "U+ABF9">>,
      <<"U+FF10", "U+FF11", "U+FF12", "U+FF13", "U+FF14", "U+FF15", "U+FF16", "U+FF17", "U+FF18", "U+FF19">>,
      <<"U+104A0", "U+104A1", "U+104A2", "U+104A3", "U+104A4", "U+104A5", "U+104A6", "U+104A7", "U+104A8", "U+104A9">>,
      <<"U+10D30", "U+10D31", "U+10D32", "U+10D33", "U+10D34", "U+10D35", "U+10D36", "U+10D37", "U+10D38", "U+10D39">>,
      <<"U+11066", "U+11067", "U+11068", "U+11069", "U+1106A", "U+1106B", "U+1106C", "U+1106D", "U+1106E", "U+1106F">>,
      <<"U+110F0", "U+110F1", "U+110F2", "U+110F3", "U+110F4", "U+110F5", "U+110F6", "U+110F7", "U+110F8", "U+110F9">>,
      <<"U+11136", "U+11137", "U+11138", "U+11139", "U+1113A", "U+1113B", "U+1113C", "U+1113D", "U+1113E", "U+1113F">>,
      <<"U+111D0", "U+111D1", "U+111D2", "U+111D3", "U+111D4", "U+111D5", "U+111D6", "U+111D7", "U+111D8", "U+111D9">>,
      <<"U+112F0", "U+112F1", "U+112F2", "U+112F3", "U+112F4", "U+112F5", "U+112F6", "U+112F7", "U+112F8", "U+112F9">>,
      <<"U+11450", "U+11451", "U+11452", "U+11453", "U+11454", "U+11455", "U+11456", "U+11457", "U+11458", "U+11459">>,
      <<"U+114D0", "U+114D1", "U+114D2", "U+114D3", "U+114D4", "U+114D5", "U+114D6", "U+114D7", "U+114D8", "U+114D9">>,
      <<"U+11650", "U+11651", "U+11652", "U+11653", "U+11654", "U+11655", "U+11656", "U+11657", "U+11658", "U+11659">>,
      <<"U+116C0", "U+116C1", "U+116C2", "U+116C3", "U+116C4", "U+116C5", "U+116C6", "U+116C7", "U+116C8", "U+116C9">>,
      <<"U+11730", "U+11731", "U+11732", "U+11733", "U+11734", "U+11735", "U+11736", "U+11737", "U+11738", "U+11739">>,
      <<"U+118E0", "U+118E1", "U+118E2", "U+118E3", "U+118E4", "U+118E5", "U+118E6", "U+118E7", "U+118E8", "U+118E9">>,
      <<"U+11950", "U+11951", "U+11952", "U+11953", "U+11954", "U+11955", "U+11956", "U+11957", "U+11958", "U+11959">>,
      <<"U+11C50", "U+11C51", "U+11C52", "U+11C53", "U+11C54", "U+11C55", "U+11C56", "U+11C57", "U+11C58", "U+11C59">>,
      <<"U+11D50", "U+11D51", "U+11D52", "U+11D53", "U+11D54", "U+11D55", "U+11D56", "U+11D57", "U+11D58", "U+11D59">>,
      <<"U+11DA0", "U+11DA1", "U+11DA2", "U+11DA3", "U+11DA4", "U+11DA5", "U+11DA6", "U+11DA7", "U+11DA8", "U+11DA9">>,
      <<"U+16A60", "U+16A61", "U+16A62", "U+16A63", "U+16A64", "U+16A65", "U+16A66", "U+16A67", "U+16A68", "U+16A69">>,
      <<"U+16AC0", "U+16AC1", "U+16AC2", "U+16AC3", "U+16AC4", "U+16AC5", "U+16AC6", "U+16AC7", "U+16AC8", "U+16AC9">>,
      <<"U+16B50", "U+16B51", "U+16B52", "U+16B53", "U+16B54", "U+16B55", "U+16B56", "U+16B57", "U+16B58", "U+16B59">>,
      <<"U+1D7CE", "U+1D7CF", "U+1D7D0", "U+1D7D1", "U+1D7D2", "U+1D7D3", "U+1D7D4", "U+1D7D5", "U+1D7D6", "U+1D7D7">>,
      <<"U+1D7D8", "U+1D7D9", "U+1D7DA", "U+1D7DB", "U+1D7DC", "U+1D7DD", "U+1D7DE", "U+1D7DF", "U+1D7E0", "U+1D7E1">>,
      <<"U+1D7E2", "U+1D7E3", "U+1D7E4", "U+1D7E5", "U+1D7E6", "U+1D7E7", "U+1D7E8", "U+1D7E9", "U+1D7EA", "U+1D7EB">>,
      <<"U+1D7EC", "U+1D7ED", "U+1D7EE", "U+1D7EF", "U+1D7F0", "U+1D7F1", "U+1D7F2", "U+1D7F3", "U+1D7F4", "U+1D7F5">>,
      <<"U+1D7F6", "U+1D7F7", "U+1D7F8", "U+1D7F9", "U+1D7FA", "U+1D7FB", "U+1D7FC", "U+1D7FD", "U+1D7FE", "U+1D7FF">>,
      <<"U+1E140", "U+1E141", "U+1E142", "U+1E143", "U+1E144", "U+1E145", "U+1E146", "U+1E147", "U+1E148", "U+1E149">>,
      <<"U+1E2F0", "U+1E2F1", "U+1E2F2", "U+1E2F3", "U+1E2F4", "U+1E2F5", "U+1E2F6", "U+1E2F7", "U+1E2F8", "U+1E2F9">>,
      <<"U+1E950", "U+1E951", "U+1E952", "U+1E953", "U+1E954", "U+1E955", "U+1E956", "U+1E957", "U+1E958", "U+1E959">>,
      <<"U+1FBF0", "U+1FBF1", "U+1FBF2", "U+1FBF3", "U+1FBF4", "U+1FBF5", "U+1FBF6", "U+1FBF7", "U+1FBF8", "U+1FBF9">>
    >>

\* the characters int() accepts
DecimalChars ==
    {DecimalDigits[r][n] : <<r, n>> \in (1..Len(DecimalDigits)) \X (1..10)}

\* the digits that are not decimal (superscripts, subscripts, circled and
\* parenthesized digits, ...): str.isdigit() accepts them, int() rejects them
NonDecimalDigitChars ==
    {
      "U+00B2", "U+00B3", "U+00B9", "U+1369", "U+136A", "U+136B", "U+136C", "U+136D",
      "U+136E", "U+136F", "U+1370", "U+1371", "U+19DA", "U+2070", "U+2074", "U+2075",
      "U+2076", "U+2077", "U+2078", "U+2079", "U+2080", "U+2081", "U+2082", "U+2083",
      "U+2084", "U+2085", "U+2086", "U+2087", "U+2088", "U+2089", "U+2460", "U+2461",
      "U+2462", "U+2463", "U+2464", "U+2465", "U+2466", "U+2467", "U+2468", "U+2474",
      "U+2475", "U+2476", "U+2477", "U+2478", "U+2479", "U+247A", "U+247B", "U+247C",
      "U+2488", "U+2489", "U+248A", "U+248B", "U+248C", "U+248D", "U+248E", "U+248F",
      "U+2490", "U+24EA", "U+24F5", "U+24F6", "U+24F7", "U+24F8", "U+24F9", "U+24FA",
      "U+24FB", "U+24FC", "U+24FD", "U+24FF", "U+2776", "U+2777", "U+2778", "U+2779",
      "U+277A", "U+277B", "U+277C", "U+277D", "U+277E", "U+2780", "U+2781", "U+2782",
      "U+2783", "U+2784", "U+2785", "U+2786", "U+2787", "U+2788", "U+278A", "U+278B",
      "U+278C", "U+278D", "U+278E", "U+278F", "U+2790", "U+2791", "U+2792", "U+10A40",
      "U+10A41", "U+10A42", "U+10A43", "U+10E60", "U+10E61", "U+10E62", "U+10E63", "U+10E64",
      "U+10E65", "U+10E66", "U+10E67", "U+10E68", "U+11052", "U+11053", "U+11054", "U+11055",
      "U+11056", "U+11057", "U+11058", "U+11059", "U+1105A", "U+1F100", "U+1F101", "U+1F102",
      "U+1F103", "U+1F104", "U+1F105", "U+1F106", "U+1F107", "U+1F108", "U+1F109", "U+1F10A"
    }

\* the characters str.isdigit() accepts
DigitChars == DecimalChars \cup NonDecimalDigitChars

\* the characters the regex class \s matches in a str pattern
Whitespace ==
    {" ", "\t", "\n", "\r", "\f", "U+000B", "U+001C", "U+001D", "U+001E",
     "U+001F", "U+0085", "U+00A0", "U+1680", "U+2000", "U+2001", "U+2002",
     "U+2003", "U+2004", "U+2005", "U+2006", "U+2007", "U+2008", "U+2009",
     "U+200A", "U+2028", "U+2029", "U+202F", "U+205F", "U+3000"}

Min(a, b) == IF a < b THEN a ELSE b

Max(a, b) == IF a > b THEN a ELSE b

\* s[lo:hi] for 0 <= lo, 0 <= hi
Slice(s, lo, hi) == SubSeq(s, lo + 1, Min(hi, Len(s)))

\* s[:-n]
DropLast(s, n) == SubSeq(s, 1, Max(Len(s) - n, 0))

\* s[-n:]
TakeLast(s, n) == SubSeq(s, Max(Len(s) - n, 0) + 1, Len(s))

\* the value of each character int() accepts
DigitValue ==
    [c \in DecimalChars |->
        CHOOSE n \in 0..9 : \E r \in 1..Len(DecimalDigits) : DecimalDigits[r][n + 1] = c]

\* int(c) of a one-character string, when it returns (c in DecimalChars;
\* on any other character int() raises ValueError: int_raises below)
int(c) == DigitValue[c]

\* str(n) and '%d' % n of a non-negative integer
RECURSIVE str(_)
str(n) == IF n < 10 THEN <<Digits[n + 1]>>
          ELSE str(n \div 10) \o <<Digits[(n % 10) + 1]>>

\* str.isdigit(): false for the empty string
isdigit(s) == Len(s) > 0 /\ \A i \in 1..Len(s) : s[i] \in DigitChars

\* range(a, b)
range(a, b) == [i \in 1..(b - a) |-> a + i - 1]

RECURSIVE sum(_)
sum(xs) == IF xs = <<>> THEN 0 ELSE Head(xs) + sum(Tail(xs))

\* hash() of a str.  The integer depends on the hash seed of the process;
\* within a process it is a function of the characters alone, and it is
\* modelled by the value it stands for: equal strings, equal hashes.
str_hash(s) == <<"hash", s>>

-----------------------------------------------------------------------------
(* exceptions.py, and the classes of the objects compared with a CPF *)

\* the base of a class; SubCPF stands for a class derived from CPF
Base(k) ==
    CASE k = "InvalidCharacters" -> "InvalidIdFormat"
      [] k = "InvalidLength"     -> "InvalidIdFormat"
      [] k = "InvalidCheckDigit" -> "InvalidIdValue"
      [] k = "InvalidSpecificId" -> "InvalidIdValue"
      [] k = "InvalidIdFormat"   -> "InvalidIdError"
      [] k = "InvalidIdValue"    -> "InvalidIdError"
      [] k = "InvalidIdError"    -> "ValueError"
      [] k = "ValueError"        -> "Exception"
      [] k = "IndexError"        -> "LookupError"
      [] k = "LookupError"       -> "Exception"
      [] k = "SubCPF"            -> "CPF"
      [] OTHER                   -> "object"

\* isinstance(x, base) for x of class k: also whether an `except base:`
\* clause catches a raised exception of class k ("None": nothing raised)
RECURSIVE isinstance(_, _)
isinstance(k, base) ==
    IF k = "None" THEN FALSE
    ELSE IF k = base THEN TRUE
    ELSE IF k = "object" THEN FALSE
    ELSE isinstance(Base(k), base)

-----------------------------------------------------------------------------
(* cpf.py: module-level functions *)

\* variant: the character class lacks \s (only the space is removed)
strip_symbols_space_only(cpf_string) ==
    SelectSeq(cpf_string, LAMBDA c : c \notin {" ", ".", "-"})

strip_symbols(cpf_string) ==
    SelectSeq(cpf_string, LAMBDA c : c \notin (Whitespace \cup {".", "-"}))

\* the exception require_format raises, "None" when it returns
require_format(cpf_digits, allow) ==
    IF ~isdigit(cpf_digits) THEN "InvalidCharacters"
    ELSE IF Len(cpf_digits) # 11
         THEN IF ~allow THEN "InvalidLength"
              ELSE IF Len(cpf_digits) # 9 THEN "InvalidLength"
              ELSE "None"
         ELSE "None"

RECURSIVE multiply_digits(_, _)
multiply_digits(digits, weights) ==
    IF digits = <<>> \/ weights = <<>> THEN <<>>
    ELSE <<int(Head(digits)) * Head(weights)>>
         \o multiply_digits(Tail(digits), Tail(weights))

\* int(a) at line 281 raises ValueError on a character that is no decimal
\* digit among the characters that calc_check_digit reads
int_raises(cpf_digits) ==
    \E i \in 1..Min(9, Len(cpf_digits)) : cpf_digits[i] \notin DecimalChars

\* variant: the first check digit is not reduced mod 10
calc_check_digit_no_mod10(cpf_digits) ==
    LET d9  == Slice(cpf_digits, 0, 9)
        dv1 == sum(multiply_digits(d9, range(1, 10))) % 11
        dv2 == (sum(multiply_digits(d9 \o str(dv1), range(0, 10))) % 11) % 10
    IN  str(dv1) \o str(dv2)

calc_check_digit(cpf_digits) ==
    LET d9  == Slice(cpf_digits, 0, 9)
        dv1 == (sum(multiply_digits(d9, range(1, 10))) % 11) % 10
        dv2 == (sum(multiply_digits(d9 \o str(dv1), range(0, 10))) % 11) % 10
    IN  str(dv1) \o str(dv2)

has_correct_check_digit(cpf_digits) ==
    calc_check_digit(DropLast(cpf_digits, 2)) = TakeLast(cpf_digits, 2)

\* all(cpf_digits[i] == cpf_digits[0] for i in range(1, 9)), when it returns:
\* on fewer than 9 characters all() stops at the first differing character
\* (an index past the end raises IndexError: index_raises below)
is_specifically_invalid_number(cpf_digits) ==
    \A i \in 1..8 : i < Len(cpf_digits) /\ cpf_digits[i + 1] = cpf_digits[1]

\* the exception require_valid raises, "None" when it returns; the
\* ValueError of int() leaves has_correct_check_digit and require_valid
require_valid(cpf_string, allow) ==
    LET cpf_digits == strip_symbols(cpf_string)
        fmt        == require_format(cpf_digits, allow)
    IN  IF fmt # "None" THEN fmt
        ELSE IF Len(cpf_string) = 11
             THEN IF int_raises(DropLast(cpf_digits, 2)) THEN "ValueError"
                  ELSE IF ~has_correct_check_digit(cpf_digits)
                  THEN "InvalidCheckDigit"
                  ELSE IF is_specifically_invalid_number(cpf_digits)
                       THEN "InvalidCheckDigit"
                       ELSE "None"
             ELSE "None"

\* [exc, ret] of is_valid: an exception outside InvalidIdError propagates
is_valid(cpf_string, allow) ==
    LET e == require_valid(cpf_string, allow)
    IN  IF e = "None" THEN [exc |-> "None", ret |-> TRUE]
        ELSE IF isinstance(e, "InvalidIdError")
             THEN [exc |-> "None", ret |-> FALSE]
             ELSE [exc |-> e, ret |-> FALSE]

-----------------------------------------------------------------------------
(* cpf.py: class CPF *)

\* [exc, obj] of CPF(cpf_string): obj is <<>> when the constructor raises
\* (a format error of require_format, or the ValueError of int())
CPF_init(cpf_string) ==
    LET cpf_digits == strip_symbols(cpf_string)
        fmt        == require_format(cpf_digits, TRUE)
    IN  IF fmt # "None" THEN [exc |-> fmt, obj |-> <<>>]
        ELSE IF Len(cpf_digits) = 11
             THEN IF int_raises(DropLast(cpf_digits, 2))
                  THEN [exc |-> "ValueError", obj |-> <<>>]
                  ELSE [exc |-> "None",
                        obj |-> <<[class |-> "CPF",
                                   cpf_digits |-> cpf_digits,
                                   valid |-> has_correct_check_digit(cpf_digits)
                                      /\ ~is_specifically_invalid_number(cpf_digits)]>>]
             ELSE IF int_raises(cpf_digits)
                  THEN [exc |-> "ValueError", obj |-> <<>>]
                  ELSE LET full == cpf_digits \o calc_check_digit(cpf_digits)
                       IN  [exc |-> "None",
                            obj |-> <<[class |-> "CPF",
                                       cpf_digits |-> full,
                                       valid |-> ~is_specifically_invalid_number(full)]>>]

digitos_aleatorios(self) == Slice(self.cpf_digits, 0, 8)

digito_regiao_fiscal(self) == <<self.cpf_digits[9]>>

digitos_verificadores(self) == Slice(self.cpf_digits, 9, 11)

regiao_fiscal(self) ==
    LET result == int(digito_regiao_fiscal(self)[1])
    IN  IF result = 0 THEN 10 ELSE result

digits_only(self) == self.cpf_digits

\* variant: the region digit is left out
CPF_str_no_region(self) ==
    Slice(digitos_aleatorios(self), 0, 3)
    \o <<".">> \o Slice(digitos_aleatorios(self), 3, 6)
    \o <<".">> \o Slice(digitos_aleatorios(self), 6, 8)
    \o <<"-">> \o digitos_verificadores(self)

CPF_str(self) ==
    Slice(digitos_aleatorios(self), 0, 3)
    \o <<".">> \o Slice(digitos_aleatorios(self), 3, 6)
    \o <<".">> \o Slice(digitos_aleatorios(self), 6, 8) \o digito_regiao_fiscal(self)
    \o <<"-">> \o digitos_verificadores(self)

\* variant: the check digits are left out of the comparison
CPF_eq_first9(self, other) ==
    IF ~isinstance(other.class, "CPF") THEN FALSE
    ELSE Slice(self.cpf_digits, 0, 9) = Slice(other.cpf_digits, 0, 9)

\* other is any object: [class |-> ..., ...]
CPF_eq(self, other) ==
    IF ~isinstance(other.class, "CPF") THEN FALSE
    ELSE self.cpf_digits = other.cpf_digits

CPF_hash(self) == str_hash(self.cpf_digits)

\* [exc, ret] of self.equals_string(cps_string)
equals_string(self, cps_string) ==
    LET made == CPF_init(cps_string)
    IN  IF made.exc = "None"
        THEN [exc |-> "None", ret |-> CPF_eq(self, made.obj[1])]
        ELSE IF isinstance(made.exc, "InvalidIdError")
             THEN [exc |-> "None", ret |-> FALSE]
             ELSE [exc |-> made.exc, ret |-> FALSE]

\* [exc, ret] of compare_strings(cpf_string_a, cpf_string_b)
compare_strings(string_a, string_b) ==
    LET made_a == CPF_init(string_a)
        made_b == CPF_init(string_b)
        raised == IF made_a.exc # "None" THEN made_a.exc ELSE made_b.exc
    IN  IF raised = "None"
        THEN [exc |-> "None", ret |-> CPF_eq(made_a.obj[1], made_b.obj[1])]
        ELSE IF isinstance(raised, "InvalidIdFormat")
             THEN [exc |-> "None", ret |-> FALSE]
             ELSE [exc |-> raised, ret |-> FALSE]

-----------------------------------------------------------------------------
(* The raw strings the calls are made on *)

\* the check digits the CPF rule assigns to nine digits (weights 1..9, then
\* 0..9 over the nine digits and the first check digit; mod 11, then mod 10)
CheckDigitsByRule(p) ==
    LET v(i) == DigitValue[p[i]]
        s1   == 1*v(1) + 2*v(2) + 3*v(3) + 4*v(4) + 5*v(5)
                + 6*v(6) + 7*v(7) + 8*v(8) + 9*v(9)
        d1   == (s1 % 11) % 10
        s2   == 0*v(1) + 1*v(2) + 2*v(3) + 3*v(4) + 4*v(5)
                + 5*v(6) + 6*v(7) + 7*v(8) + 8*v(9) + 9*d1
        d2   == (s2 % 11) % 10
    IN  <<Digits[d1 + 1], Digits[d2 + 1]>>

\* nine digits: digit d, then d+k, d+2k, ... (mod 10); k = 0 repeats d
Prefix(d, k) == [i \in 1..9 |-> Digits[((d + k * (i - 1)) % 10) + 1]]

\* the two digits `delta` above the rule's check digits (delta = 0: correct)
TailOf(p, delta) ==
    LET c == CheckDigitsByRule(p)
        v(x) == CHOOSE n \in 0..9 : Digits[n + 1] = x
        n == (10 * v(c[1]) + v(c[2]) + delta) % 100
    IN  <<Digits[(n \div 10) + 1], Digits[(n % 10) + 1]>>

Formats == {"plain", "punctuated", "spaced", "tabbed"}

\* nine digits p and a tail t (<<>> or two digits) written in a format
Render(p, t, f) ==
    LET dotted == SubSeq(p, 1, 3) \o <<".">> \o SubSeq(p, 4, 6) \o <<".">>
                  \o SubSeq(p, 7, 9)
    IN  CASE f = "plain"      -> p \o t
          [] f = "punctuated" -> IF t = <<>> THEN dotted ELSE dotted \o <<"-">> \o t
          [] f = "spaced"     -> <<" ">> \o dotted \o <<" ">> \o t \o <<" ", " ">>
          [] f = "tabbed"     -> <<"\t">> \o p \o t \o <<"\n">>

Tails(p, maxDelta) == {<<>>} \cup {TailOf(p, delta) : delta \in 0..maxDelta}

\* strings of the tests, the examples and the docstrings
Examples ==
    { <<>>,
      <<"a", "b", "c", "d">>,
      <<"1", "2", "3", "4", "5", "6", "7">>,
      <<"1", "2", "3", "4", "5", "6", "7", "8", "9", "X", "X">>,
      <<"1", "2", "3", "4", "5", "6", "7", "8", "9", "1", "0", "9", "9">>,
      <<"1", "2", "3", "/", "4", "5", "6", ".", "7", "8", "9", "-", "X", "X">>,
      <<"1", "0", "0", "0", "0", "0", "9", "8", "7">>,
      <<"2", "8", "0", "0", "1", "2", "3", "8", "9">>,
      <<"1", "0", "0", "0", "0", "0", "9", "8", "7", "4", "4">>,
      <<"1", "0", "0", ".", "0", "0", "0", ".", "9", "8", "7", "-", "4", "4">>,
      <<"2", "8", "0", "0", "1", "2", "3", "8", "9", "3", "8">>,
      <<"1", "2", "3", "1", "2", "3", "1", "2", "3", "1", "2">>,
      <<"1", "1", "1", "1", "1", "1", "1", "1", "1", "2", "2">>,
      <<"1", "1", "1", ".", "1", "1", "1", ".", "1", "1", "1", "-", "9", "9">>,
      <<"1", "1", "1", ".", "1", "1", "1", ".", "1", "1", "1", "-", "5", "5">>,
      <<"\t", "1", "2", "3", "/", "4", "5", "6", ".", "7", "8", "9", "-", "X", "X", "\n">> }

\* strings with digits and whitespace outside ASCII
Unusual ==
    { <<"1", "2", "3", "4", "5", "6", "7", "8", "9", "0", "U+00B2">>,
      <<"U+00B2", "2", "3", "4", "5", "6", "7", "8", "9", "0", "9">>,
      <<"1", "2", "3", "4", "5", "6", "7", "8", "U+00B2">>,
      <<"U+00B2", "U+00B2", "U+00B2", "U+00B2", "U+00B2", "U+00B2", "U+00B2", "U+00B2", "U+00B2", "U+00B2", "U+00B2">>,
      <<"U+2460">>,
      <<"U+0661", "U+0661", "U+0661", "U+0661", "U+0661", "U+0661", "U+0661", "U+0661", "U+0661">>,
      <<"U+0661", "U+0661", "U+0661", "U+0661", "U+0661", "U+0661", "U+0661", "U+0661", "U+0661", "U+0661", "U+0661">>,
      <<"U+0661", "U+0661", "U+0661", "U+0661", "U+0661", "U+0661", "U+0661", "U+0661", "U+0661", "1", "1">>,
      <<"U+0661", "U+0662", "U+0663", "U+0664", "U+0665", "U+0666", "U+0667", "U+0668", "U+0669">>,
      <<"1", "2", "3", "4", "5", "6", "7", "8", "9", "U+000B", "0", "9">>,
      <<"1", "2", "3", "U+00A0", "4", "5", "6", "U+00A0", "7", "8", "9">>,
      <<"1", "U+001C", "2">>,
      <<"1", "2", "3", ".", "4", "5", "6", ".", "7", "8", "9", "U+2003", "0", "9">>,
      <<"U+0967", "U+0967", "U+0967", "U+0967", "U+0967", "U+0967", "U+0967", "U+0967", "U+0967", "U+0967", "U+0967">>,
      <<"U+0967", "U+0967", "U+0967", "U+0967", "U+0967", "U+0967", "U+0967", "U+0967", "U+0967">>,
      <<"U+0967", "U+0968", "U+0969", "U+096A", "U+096B", "U+096C", "U+096D", "U+096E", "U+096F">>,
      <<"U+0967", "2", "3", "4", "5", "6", "7", "8", "9", "0", "9">>,
      <<"U+FF11", "U+FF12", "U+FF13">>,
      <<"U+FF11">>,
      <<"U+06F1", "U+06F1", "U+06F1", "U+06F1", "U+06F1", "U+06F1", "U+06F1", "U+06F1", "U+06F1", "U+06F1", "U+06F1">>,
      <<"U+2461", "U+2461", "U+2461", "U+2461", "U+2461", "U+2461", "U+2461", "U+2461", "U+2461", "U+2461", "U+2461">>,
      <<"U+2070", "U+2070", "U+2070", "U+2070", "U+2070", "U+2070", "U+2070", "U+2070", "U+2070", "U+2070", "U+2070">>,
      <<"1", "2", "3", "4", "5", "6", "7", "8", "U+2461">>,
      <<"U+2081">>,
      <<"U+1D7CF", "2", "3", "4", "5", "6", "7", "8", "9">> }

PairUnusual ==
    { <<"1", "2", "3", "4", "5", "6", "7", "8", "U+00B2">>,
      <<"1", "2", "3", "4", "5", "6", "7", "8", "9", "0", "U+00B2">>,
      <<"U+0661", "U+0661", "U+0661", "U+0661", "U+0661", "U+0661", "U+0661", "U+0661", "U+0661">>,
      <<"U+0661", "U+0661", "U+0661", "U+0661", "U+0661", "U+0661", "U+0661", "U+0661", "U+0661", "1", "1">>,
      <<"1", "1", "1", "1", "1", "1", "1", "1", "1", "U+000B", "1", "1">>,
      <<"U+0967", "U+0967", "U+0967", "U+0967", "U+0967", "U+0967", "U+0967", "U+0967", "U+0967">>,
      <<"1", "2", "3", "4", "5", "6", "7", "8", "U+2461">>,
      <<"U+FF11", "U+FF12", "U+FF13">> }

Malformed == { <<>>, <<"a", "b", "c", "d">>, <<"1", "2", "3", "4", "5", "6", "7">> }

RawInputs ==
    Examples \cup Unusual \cup
    UNION { UNION { { Render(Prefix(d, k), t, f) : f \in Formats }
                    : t \in Tails(Prefix(d, k), MaxTailDelta) }
            : <<d, k>> \in (0..9) \X (0..MaxStep) }

PairInputs ==
    Malformed \cup PairUnusual \cup
    UNION { UNION { { Render(Prefix(d, k), t, f) : f \in {"plain", "punctuated"} }
                    : t \in Tails(Prefix(d, k), MaxTailDelta) }
            : <<d, k>> \in (1..2) \X (0..MaxPairStep) }

-----------------------------------------------------------------------------
(* The calls *)

\* cpf_digits[i] at line 304 raises IndexError when the generator reaches an
\* index past the end before it meets a differing character
index_raises(cpf_digits) ==
    /\ Len(cpf_digits) < 9
    /\ \A i \in 1..(Len(cpf_digits) - 1) : cpf_digits[i + 1] = cpf_digits[1]

Returns(name, value) == op' = name /\ ret' = value /\ exc' = "None"

Raises(name, kind) == op' = name /\ ret' = "None" /\ exc' = kind

Outcome(name, r) ==
    IF r.exc = "None" THEN Returns(name, r.ret) ELSE Raises(name, r.exc)

CallStripSymbols ==
    /\ Returns("strip_symbols", strip_symbols(cpf_string_a))
    /\ UNCHANGED <<cpf_string_a, cpf_string_b, allow_missing_check_digits, cpf_a, cpf_b>>

CallRequireFormat ==
    /\ LET e == require_format(cpf_string_a, allow_missing_check_digits)
       IN  IF e = "None" THEN Returns("require_format", "None")
           ELSE Raises("require_format", e)
    /\ UNCHANGED <<cpf_string_a, cpf_string_b, allow_missing_check_digits, cpf_a, cpf_b>>

CallCalcCheckDigit ==
    /\ IF int_raises(cpf_string_a) THEN Raises("calc_check_digit", "ValueError")
       ELSE Returns("calc_check_digit", calc_check_digit(cpf_string_a))
    /\ UNCHANGED <<cpf_string_a, cpf_string_b, allow_missing_check_digits, cpf_a, cpf_b>>

CallHasCorrectCheckDigit ==
    /\ IF int_raises(DropLast(cpf_string_a, 2))
       THEN Raises("has_correct_check_digit", "ValueError")
       ELSE Returns("has_correct_check_digit", has_correct_check_digit(cpf_string_a))
    /\ UNCHANGED <<cpf_string_a, cpf_string_b, allow_missing_check_digits, cpf_a, cpf_b>>

CallIsSpecificallyInvalidNumber ==
    /\ IF index_raises(cpf_string_a)
       THEN Raises("is_specifically_invalid_number", "IndexError")
       ELSE Returns("is_specifically_invalid_number",
                    is_specifically_invalid_number(cpf_string_a))
    /\ UNCHANGED <<cpf_string_a, cpf_string_b, allow_missing_check_digits, cpf_a, cpf_b>>

CallRequireValid ==
    /\ LET e == require_valid(cpf_string_a, allow_missing_check_digits)
       IN  IF e = "None" THEN Returns("require_valid", "None")
           ELSE Raises("require_valid", e)
    /\ UNCHANGED <<cpf_string_a, cpf_string_b, allow_missing_check_digits, cpf_a, cpf_b>>

CallIsValid ==
    /\ Outcome("is_valid", is_valid(cpf_string_a, allow_missing_check_digits))
    /\ UNCHANGED <<cpf_string_a, cpf_string_b, allow_missing_check_digits, cpf_a, cpf_b>>

\* cpf_a = CPF(cpf_string_a): the name is bound only when the constructor returns
NewCPF_a ==
    /\ LET made == CPF_init(cpf_string_a)
       IN  IF made.exc = "None"
           THEN cpf_a' = made.obj /\ Returns("CPF_a", "None")
           ELSE cpf_a' = cpf_a /\ Raises("CPF_a", made.exc)
    /\ UNCHANGED <<cpf_string_a, cpf_string_b, allow_missing_check_digits, cpf_b>>

NewCPF_b ==
    /\ LET made == CPF_init(cpf_string_b)
       IN  IF made.exc = "None"
           THEN cpf_b' = made.obj /\ Returns("CPF_b", "None")
           ELSE cpf_b' = cpf_b /\ Raises("CPF_b", made.exc)
    /\ UNCHANGED <<cpf_string_a, cpf_string_b, allow_missing_check_digits, cpf_a>>

CallStr ==
    /\ cpf_a # <<>>
    /\ Returns("__str__", CPF_str(cpf_a[1]))
    /\ UNCHANGED <<cpf_string_a, cpf_string_b, allow_missing_check_digits, cpf_a, cpf_b>>

GetDigitsOnly ==
    /\ cpf_a # <<>>
    /\ Returns("digits_only", digits_only(cpf_a[1]))
    /\ UNCHANGED <<cpf_string_a, cpf_string_b, allow_missing_check_digits, cpf_a, cpf_b>>

GetIsValid ==
    /\ cpf_a # <<>>
    /\ Returns("is_valid_property", cpf_a[1].valid)
    /\ UNCHANGED <<cpf_string_a, cpf_string_b, allow_missing_check_digits, cpf_a, cpf_b>>

GetRegiaoFiscal ==
    /\ cpf_a # <<>>
    /\ Returns("regiao_fiscal", regiao_fiscal(cpf_a[1]))
    /\ UNCHANGED <<cpf_string_a, cpf_string_b, allow_missing_check_digits, cpf_a, cpf_b>>

CallEq ==
    /\ cpf_a # <<>>
    /\ cpf_b # <<>>
    /\ Returns("__eq__", CPF_eq(cpf_a[1], cpf_b[1]))
    /\ UNCHANGED <<cpf_string_a, cpf_string_b, allow_missing_check_digits, cpf_a, cpf_b>>

\* cpf_a == other, where other carries the same private fields and is of a
\* class derived from CPF or of a class that is not
CallEqOther ==
    /\ cpf_a # <<>>
    /\ \E cls \in {"SubCPF", "object"} :
          Returns("__eq__other",
                  CPF_eq(cpf_a[1], [class |-> cls,
                                    cpf_digits |-> cpf_a[1].cpf_digits,
                                    valid |-> cpf_a[1].valid]))
    /\ UNCHANGED <<cpf_string_a, cpf_string_b, allow_missing_check_digits, cpf_a, cpf_b>>

CallHash ==
    /\ cpf_a # <<>>
    /\ Returns("__hash__", CPF_hash(cpf_a[1]))
    /\ UNCHANGED <<cpf_string_a, cpf_string_b, allow_missing_check_digits, cpf_a, cpf_b>>

CallEqualsString ==
    /\ cpf_a # <<>>
    /\ Outcome("equals_string", equals_string(cpf_a[1], cpf_string_b))
    /\ UNCHANGED <<cpf_string_a, cpf_string_b, allow_missing_check_digits, cpf_a, cpf_b>>

CallCompareStrings ==
    /\ Outcome("compare_strings", compare_strings(cpf_string_a, cpf_string_b))
    /\ UNCHANGED <<cpf_string_a, cpf_string_b, allow_missing_check_digits, cpf_a, cpf_b>>

-----------------------------------------------------------------------------
(* Calls on one raw string *)

Init ==
    /\ cpf_string_a \in RawInputs
    /\ cpf_string_b = <<>>
    /\ allow_missing_check_digits \in BOOLEAN
    /\ cpf_a = <<>>
    /\ cpf_b = <<>>
    /\ op = "None"
    /\ ret = "None"
    /\ exc = "None"

Next ==
    \/ CallStripSymbols
    \/ CallRequireFormat
    \/ CallCalcCheckDigit
    \/ CallHasCorrectCheckDigit
    \/ CallIsSpecificallyInvalidNumber
    \/ CallRequireValid
    \/ CallIsValid
    \/ NewCPF_a
    \/ CallStr
    \/ GetDigitsOnly
    \/ GetIsValid
    \/ GetRegiaoFiscal

Spec == Init /\ [][Next]_vars

(* Calls on two raw strings *)

PairInit ==
    /\ cpf_string_a \in PairInputs
    /\ cpf_string_b \in PairInputs
    /\ allow_missing_check_digits = FALSE
    /\ cpf_a = <<>>
    /\ cpf_b = <<>>
    /\ op = "None"
    /\ ret = "None"
    /\ exc = "None"

PairNext ==
    \/ NewCPF_a
    \/ NewCPF_b
    \/ CallEq
    \/ CallEqOther
    \/ CallHash
    \/ CallEqualsString
    \/ CallCompareStrings

PairSpec == PairInit /\ [][PairNext]_vars

-----------------------------------------------------------------------------
(* Vocabulary of the properties, stated without the operators of the code *)

Separators == Whitespace \cup {".", "-"}

\* s with every character of `removed` taken out, the others kept in order
RECURSIVE Without(_, _)
Without(s, removed) ==
    IF s = <<>> THEN <<>>
    ELSE IF Head(s) \in removed THEN Without(Tail(s), removed)
    ELSE <<Head(s)>> \o Without(Tail(s), removed)

Stripped(s) == Without(s, Separators)

AllDecimal(c) == \A i \in 1..Len(c) : c[i] \in DecimalChars

ElevenDigits(c) == Len(c) = 11 /\ AllDecimal(c)

NineDigits(c) == Len(c) = 9 /\ AllDecimal(c)

ChecksumOk(c) == SubSeq(c, 10, 11) = CheckDigitsByRule(SubSeq(c, 1, 9))

RepeatedFirst9(c) == \A i \in 2..9 : c[i] = c[1]

ValidNumber(c) == ElevenDigits(c) /\ ChecksumOk(c) /\ ~RepeatedFirst9(c)

Constructible(c) == NineDigits(c) \/ ElevenDigits(c)

\* the eleven digits a constructible string stands for
Canonical(c) == IF Len(c) = 9 THEN c \o CheckDigitsByRule(c) ELSE c

FormatErrorByRule(c, allow) ==
    IF ~AllDecimal(c) THEN "InvalidCharacters"
    ELSE IF Len(c) # 11 /\ ~(allow /\ Len(c) = 9) THEN "InvalidLength"
    ELSE "None"

-----------------------------------------------------------------------------
(* Properties *)

\* C1: in strict mode is_valid never raises and returns true iff the stripped
\* string is 11 digits with the right check digits and not a repeated digit,
\* whatever the punctuation of the raw string.
C1_IsValidStrict ==
    (op = "is_valid" /\ ~allow_missing_check_digits)
        => (exc = "None" /\ ret = ValidNumber(Stripped(cpf_string_a)))

\* C2: on a string whose stripped form is 11 digits, require_valid raises
\* InvalidCheckDigit iff the check digits are wrong, else InvalidSpecificId
\* when the first nine digits repeat one digit, else returns.
C2_RequireValidKinds ==
    (op = "require_valid" /\ ElevenDigits(Stripped(cpf_string_a)))
        => exc = (IF ~ChecksumOk(Stripped(cpf_string_a)) THEN "InvalidCheckDigit"
                  ELSE IF RepeatedFirst9(Stripped(cpf_string_a)) THEN "InvalidSpecificId"
                  ELSE "None")

\* C3: in permissive mode a string whose stripped form is 9 digits passes
\* require_valid and is_valid, whatever its punctuation or raw length.
C3_PermissiveNineDigits ==
    (/\ op \in {"require_valid", "is_valid"}
     /\ allow_missing_check_digits
     /\ NineDigits(Stripped(cpf_string_a)))
        => (exc = "None" /\ (op = "is_valid" => ret = TRUE))

\* C4: CPF(s) succeeds iff the stripped string is 9 or 11 digits, never fails
\* on the value of the number, stores exactly 11 digits (9 digits followed by
\* their check digits) and sets is_valid iff the stored check digits are
\* right and the first nine digits are not one repeated digit.
C4_Construction ==
    LET c == Stripped(cpf_string_a)
    IN  /\ op = "CPF_a" =>
             /\ (exc = "None") <=> Constructible(c)
             /\ exc \notin {"InvalidCheckDigit", "InvalidSpecificId"}
             /\ exc = "None" => cpf_a # <<>>
        /\ cpf_a # <<>> =>
             /\ Len(cpf_a[1].cpf_digits) = 11
             /\ AllDecimal(cpf_a[1].cpf_digits)
             /\ cpf_a[1].cpf_digits = Canonical(c)
             /\ cpf_a[1].valid = (/\ ChecksumOk(cpf_a[1].cpf_digits)
                                  /\ ~RepeatedFirst9(cpf_a[1].cpf_digits))

\* C5: require_format raises InvalidCharacters iff some character is not a
\* decimal digit, else InvalidLength iff the length is not 11 and not (9 in
\* permissive mode), else returns; for every stripped string, the empty one
\* included.
C5_RequireFormat ==
    (op = "require_format" /\ cpf_string_a = Stripped(cpf_string_a))
        => exc = FormatErrorByRule(cpf_string_a, allow_missing_check_digits)

\* C6: two constructed CPFs are equal iff their stored digits are equal, equal
\* ones hash alike, punctuation is ignored, 9 digits equal the same 9 digits
\* with their correct check digits, and different check digits are unequal.
C6_EqualityAndHash ==
    (cpf_a # <<>> /\ cpf_b # <<>>) =>
        LET x  == cpf_a[1]
            y  == cpf_b[1]
            ca == Stripped(cpf_string_a)
            cb == Stripped(cpf_string_b)
        IN  /\ op = "__eq__" => /\ ret = (x.cpf_digits = y.cpf_digits)
                                /\ ret = (Canonical(ca) = Canonical(cb))
            /\ CPF_eq(x, y) => CPF_hash(x) = CPF_hash(y)
            /\ CPF_eq(x, x)
            /\ CPF_eq(x, y) = CPF_eq(y, x)
            /\ ca = cb => CPF_eq(x, y)
            /\ (Len(ca) = 9 /\ cb = ca \o CheckDigitsByRule(ca)) => CPF_eq(x, y)
            /\ (/\ Len(ca) = 11
                /\ Len(cb) = 11
                /\ SubSeq(ca, 1, 9) = SubSeq(cb, 1, 9)
                /\ SubSeq(ca, 10, 11) # SubSeq(cb, 10, 11)) => ~CPF_eq(x, y)

C6_Witness ==
    /\ op = "__eq__"
    /\ ret = TRUE
    /\ Len(Stripped(cpf_string_a)) = 9
    /\ Len(Stripped(cpf_string_b)) = 11
    /\ cpf_string_b # Stripped(cpf_string_b)

\* C7: compare_strings never raises; it returns false when either string
\* cannot be constructed and CPF(a) == CPF(b) otherwise.  equals_string
\* returns false when the string cannot be constructed and x == CPF(s)
\* otherwise.
C7_CompareStrings ==
    LET ca == Stripped(cpf_string_a)
        cb == Stripped(cpf_string_b)
    IN  /\ op = "compare_strings" =>
             /\ exc = "None"
             /\ ret = (/\ Constructible(ca)
                       /\ Constructible(cb)
                       /\ Canonical(ca) = Canonical(cb))
             /\ (CPF_init(cpf_string_a).exc # "None"
                    \/ CPF_init(cpf_string_b).exc # "None") => ret = FALSE
             /\ (CPF_init(cpf_string_a).exc = "None"
                    /\ CPF_init(cpf_string_b).exc = "None")
                  => ret = CPF_eq(CPF_init(cpf_string_a).obj[1],
                                  CPF_init(cpf_string_b).obj[1])
        /\ op = "equals_string" =>
             /\ exc = "None"
             /\ ret = (Constructible(cb) /\ cpf_a[1].cpf_digits = Canonical(cb))

\* C8: on 9 digits calc_check_digit returns the two digits of the rule
\* (weights 1..9, then 0..9 with the first check digit appended; mod 11 mod
\* 10), always of length 2; has_correct_check_digit of 11 digits is true iff
\* the last two equal calc_check_digit of the first nine.
C8_CheckDigits ==
    /\ (op = "calc_check_digit" /\ NineDigits(cpf_string_a)) =>
          /\ exc = "None"
          /\ Len(ret) = 2
          /\ ret[1] \in DigitChars
          /\ ret[2] \in DigitChars
          /\ ret = CheckDigitsByRule(cpf_string_a)
    /\ (op = "calc_check_digit"
            /\ cpf_string_a = <<"1", "0", "0", "0", "0", "0", "9", "8", "7">>)
          => ret = <<"4", "4">>
    /\ (op = "calc_check_digit"
            /\ cpf_string_a = <<"2", "8", "0", "0", "1", "2", "3", "8", "9">>)
          => ret = <<"3", "8">>
    /\ (op = "has_correct_check_digit" /\ ElevenDigits(cpf_string_a)) =>
          /\ exc = "None"
          /\ ret = (SubSeq(cpf_string_a, 10, 11)
                        = calc_check_digit(SubSeq(cpf_string_a, 1, 9)))
          /\ ret = ChecksumOk(cpf_string_a)

C8_Witness ==
    /\ op = "calc_check_digit"
    /\ cpf_string_a = <<"1", "2", "3", "4", "5", "6", "7", "8", "9">>
    /\ ret = <<"0", "9">>

\* C9: str(x) is the 14 characters AAA.AAA.AAB-ZZ of the stored digits, and
\* CPF(str(x)) succeeds and equals x, with the same is_valid flag.
C9_RoundTrip ==
    (op = "__str__") =>
        LET d == cpf_a[1].cpf_digits
        IN  /\ Len(ret) = 14
            /\ ret = <<d[1], d[2], d[3], ".", d[4], d[5], d[6], ".",
                       d[7], d[8], d[9], "-", d[10], d[11]>>
            /\ CPF_init(ret).exc = "None"
            /\ CPF_eq(CPF_init(ret).obj[1], cpf_a[1])
            /\ CPF_init(ret).obj[1].valid = cpf_a[1].valid

C9_Witness ==
    /\ op = "__str__"
    /\ NineDigits(Stripped(cpf_string_a))
    /\ cpf_a[1].valid = FALSE
    /\ Len(ret) = 14

\* C10 as stated: strip_symbols removes exactly space, '.' and '-' and keeps
\* every other character.
C10_RemovesOnlySpaceDotDash ==
    (op = "strip_symbols") => ret = Without(cpf_string_a, {" ", ".", "-"})

\* C10 amended: strip_symbols removes exactly the whitespace characters, '.'
\* and '-', keeps every other character in order, and is idempotent.
C10_RemovesWhitespaceDotDash ==
    (op = "strip_symbols") =>
        /\ ret = Without(cpf_string_a, Separators)
        /\ strip_symbols(ret) = ret

C10_Witness ==
    /\ op = "strip_symbols"
    /\ \E i \in 1..Len(cpf_string_a) : cpf_string_a[i] = "\t"
    /\ \E i \in 1..Len(cpf_string_a) : cpf_string_a[i] = "/"
    /\ Len(ret) < Len(cpf_string_a)

=============================================================================
